---- MODULE Spec2Model ----
(***************************************************************************)
(* Model of recortar_spritesheet.py: a sprite sheet is cut into a grid of  *)
(* frame_width x frame_height cells, every cell is pasted into a blank     *)
(* scratch frame at vertical offset y_offset and the scratch frame is      *)
(* pasted back at the cell's position in a blank sheet of the source's     *)
(* size, which is then saved.                                              *)
(*                                                                         *)
(* An image is a record [w, h, px]; px maps <<x, y>> to a pixel            *)
(* <<colour, alpha>>.  The source is an RGBA image, so pasting converts    *)
(* nothing and the PNG round trip through the disk is lossless.            *)
(***************************************************************************)
EXTENDS Integers, Sequences, FiniteSets

\* ---- bounds of the model ------------------------------------------------
MaxPixels == 6      \* a source sheet has at most this many pixels
MaxFrame  == 3      \* frame_width and frame_height range over 1..MaxFrame
MaxOrderCells == 4  \* SpecAnyOrder explores the orders of grids of at most this many cells
MaxRuns   == 2      \* SpecRerun feeds the output back in until this many runs

\* ---- configuration (lines 5-9) -------------------------------------------
input_path  == "skeletonAttack-Sheet146x64.png"
output_path == "skeletonAttack-cropped.png"
completion_message == <<"Spritesheet corregido con offset guardado en: ", output_path>>

VARIABLES
  frame_width, frame_height, y_offset,   \* configuration, fixed during a run
  disk,                                  \* path -> file
  pc,                                    \* position of the script
  spritesheet, sheet_width, sheet_height, cols, rows,
  new_sheet, row, col, left, top, frame, new_frame,
  messages,                              \* what the run printed
  written,                               \* history: per sheet pixel, number of loop iterations that wrote it
  visited,                               \* history: the cells whose iteration has finished
  runs,                                  \* history: number of the current run
  first_input                            \* history: the source file of the first run

config == <<frame_width, frame_height, y_offset>>
locals == <<spritesheet, sheet_width, sheet_height, cols, rows,
            new_sheet, row, col, left, top, frame, new_frame>>
history == <<written, visited, runs, first_input>>
vars == <<config, disk, pc, locals, messages, history>>

\* ---- images ---------------------------------------------------------------
Opaque == 255
Blank == <<0, 0>>                       \* the fill colour (0, 0, 0, 0)
Alpha(p) == p[2]

Coords(w, h) == (0 .. w - 1) \X (0 .. h - 1)

\* Image.new("RGBA", (w, h), (0, 0, 0, 0))
NewImage(w, h) == [w |-> w, h |-> h, px |-> [p \in Coords(w, h) |-> Blank]]

NoImage == NewImage(0, 0)

\* Image.crop(box): the box's pixels; what lies outside the image reads as zero.
Crop(im, box) ==
  LET w == box[3] - box[1]
      h == box[4] - box[2]
  IN [w |-> w, h |-> h,
      px |-> [p \in Coords(w, h) |->
                LET s == <<box[1] + p[1], box[2] + p[2]>>
                IN IF s \in Coords(im.w, im.h) THEN im.px[s] ELSE Blank]]

\* The pixels of dst that dst.paste(src, at) writes: src's rectangle placed at
\* `at`, clipped on every side to dst.
PasteRegion(dst, src, at) ==
  {p \in Coords(dst.w, dst.h) :
     /\ p[1] - at[1] \in 0 .. src.w - 1
     /\ p[2] - at[2] \in 0 .. src.h - 1}

\* A paste that wraps rows around instead of clipping them.
Paste_Wraps(dst, src, at) ==
  [dst EXCEPT !.px =
     [p \in Coords(dst.w, dst.h) |->
        IF p[1] - at[1] \in 0 .. src.w - 1 /\ src.h > 0
          THEN src.px[<<p[1] - at[1], (p[2] - at[2]) % src.h>>]
          ELSE dst.px[p]]]

\* Image.paste(src, at) without a mask: overwrites all four channels.
Paste(dst, src, at) ==
  [dst EXCEPT !.px =
     [p \in Coords(dst.w, dst.h) |->
        IF p \in PasteRegion(dst, src, at)
          THEN src.px[<<p[1] - at[1], p[2] - at[2]>>]
          ELSE dst.px[p]]]

\* ---- files ----------------------------------------------------------------
Absent      == [kind |-> "absent", img |-> NoImage]
Partial     == [kind |-> "partial", img |-> NoImage]
ImageFile(im) == [kind |-> "image", img |-> im]
StaleFile   == ImageFile([w |-> 1, h |-> 1, px |-> [p \in Coords(1, 1) |-> <<0, Opaque>>]])

\* ---- inputs ---------------------------------------------------------------
\* The content a source pixel may hold besides Blank: a colour of its own,
\* opaque on one colour of the chequerboard and transparent on the other.
Content(W, p) == <<1 + p[1] + p[2] * W, IF (p[1] + p[2]) % 2 = 0 THEN Opaque ELSE 0>>

SourceImages(W, H) ==
  {[w |-> W, h |-> H,
    px |-> [p \in Coords(W, H) |-> IF p \in S THEN Content(W, p) ELSE Blank]] :
     S \in SUBSET Coords(W, H)}

Offsets(fh) == -(fh + 1) .. (fh + 1)

\* ---- the script -----------------------------------------------------------
Fresh ==
  /\ pc = "open"
  /\ spritesheet = NoImage /\ sheet_width = 0 /\ sheet_height = 0
  /\ cols = 0 /\ rows = 0 /\ new_sheet = NoImage
  /\ row = 0 /\ col = 0 /\ left = 0 /\ top = 0
  /\ frame = NoImage /\ new_frame = NoImage
  /\ messages = <<>>
  /\ written = <<>> /\ visited = {}

Init ==
  /\ frame_width \in 1 .. MaxFrame
  /\ frame_height \in 1 .. MaxFrame
  /\ y_offset \in Offsets(frame_height)
  /\ \E W \in 1 .. MaxPixels, H \in 1 .. MaxPixels :
       /\ W * H <= MaxPixels
       /\ \E im \in SourceImages(W, H), old \in {Absent, StaleFile} :
            /\ disk = [f \in {input_path, output_path} |->
                         IF f = input_path THEN ImageFile(im) ELSE old]
            /\ first_input = im
  /\ runs = 1
  /\ Fresh

\* line 15 with a rounding-up division
GridCols_RoundsUp == (sheet_width + frame_width - 1) \div frame_width

\* line 15
GridCols == sheet_width \div frame_width
\* line 16
GridRows == sheet_height \div frame_height

\* lines 12-16
Open ==
  /\ pc = "open"
  /\ disk[input_path].kind = "image"
  /\ spritesheet' = disk[input_path].img
  /\ sheet_width' = disk[input_path].img.w
  /\ sheet_height' = disk[input_path].img.h
  /\ UNCHANGED config
  /\ cols' = GridCols'
  /\ rows' = GridRows'
  /\ pc' = "alloc"
  /\ UNCHANGED <<disk, new_sheet, row, col, left, top, frame, new_frame,
                 messages, history>>

\* line 12 raises: the file cannot be read or is no image
OpenFail ==
  /\ pc = "open"
  /\ pc' = "failed"
  /\ UNCHANGED <<config, disk, locals, messages, history>>

AllCells == (0 .. rows - 1) \X (0 .. cols - 1)

\* range(rows) x range(cols): the first cell, none if the grid is empty
ForFirst == IF rows > 0 /\ cols > 0 THEN {<<0, 0>>} ELSE {}
\* the cell after (r, c) in row-major order, none after the last
ForNext(r, c) ==
  IF c + 1 < cols THEN {<<r, c + 1>>}
  ELSE IF r + 1 < rows THEN {<<r + 1, 0>>}
  ELSE {}

\* The loops move on to one of `cells`, or end when there is none.
StepTo(cells) ==
  IF cells = {}
    THEN pc' = "save" /\ UNCHANGED <<row, col>>
    ELSE \E cell \in cells : row' = cell[1] /\ col' = cell[2] /\ pc' = "crop"

\* a sheet as large as the whole frames only
SheetSize_WholeFrames == <<cols * frame_width, rows * frame_height>>

\* line 19
SheetSize == <<sheet_width, sheet_height>>

AllocThen(cells) ==
  /\ pc = "alloc"
  /\ new_sheet' = NewImage(SheetSize[1], SheetSize[2])
  /\ written' = [p \in Coords(SheetSize[1], SheetSize[2]) |-> 0]
  /\ StepTo(cells)
  /\ UNCHANGED <<config, disk, spritesheet, sheet_width, sheet_height, cols, rows,
                 left, top, frame, new_frame, messages, visited, runs, first_input>>

\* lines 19-22
Alloc == AllocThen(ForFirst)

\* line 23
CellLeft(c) == c * frame_width
\* line 24
CellTop(r) == r * frame_height

\* a crop window moved up by the offset instead of a shifted paste
CropBox_Shifted(l, t) == <<l, t - y_offset, l + frame_width, t - y_offset + frame_height>>

\* line 25
CropBox(l, t) == <<l, t, l + frame_width, t + frame_height>>

\* lines 23-25
CropFrame ==
  /\ pc = "crop"
  /\ left' = CellLeft(col)
  /\ top' = CellTop(row)
  /\ frame' = Crop(spritesheet, CropBox(left', top'))
  /\ pc' = "shift"
  /\ UNCHANGED <<config, disk, spritesheet, sheet_width, sheet_height, cols, rows,
                 new_sheet, row, col, new_frame, messages, history>>

\* a failing crop that still saves the sheet built so far
CropFail_SavesPartial ==
  /\ pc = "crop"
  /\ disk' = [disk EXCEPT ![output_path] = ImageFile(new_sheet)]
  /\ pc' = "failed"
  /\ UNCHANGED <<config, locals, messages, history>>

\* line 25 raises: the pixel data cannot be decoded or held in memory
CropFail ==
  /\ pc = "crop"
  /\ pc' = "failed"
  /\ UNCHANGED <<config, disk, locals, messages, history>>

\* a scratch frame that starts as a copy of the cropped frame
ScratchFrame_CopyOfFrame == frame

\* line 28
ScratchFrame == NewImage(frame_width, frame_height)

\* a paste that shifts up instead of down
FrameOffset_Up == <<0, -y_offset>>
\* a paste at the top of the scratch frame
FrameOffset_None == <<0, 0>>

\* line 29
FrameOffset == <<0, y_offset>>

\* lines 28-29
Shift ==
  /\ pc = "shift"
  /\ new_frame' = Paste(ScratchFrame, frame, FrameOffset)
  /\ pc' = "compose"
  /\ UNCHANGED <<config, disk, spritesheet, sheet_width, sheet_height, cols, rows,
                 new_sheet, row, col, left, top, frame, messages, history>>

\* the shifted frame pasted lower by the offset
SheetOffset_Lower(l, t) == <<l, t + y_offset>>

\* line 32
SheetOffset(l, t) == <<l, t>>

ComposeThen(cells) ==
  /\ pc = "compose"
  /\ new_sheet' = Paste(new_sheet, new_frame, SheetOffset(left, top))
  /\ written' = [p \in DOMAIN written |->
                   IF p \in PasteRegion(new_sheet, new_frame, SheetOffset(left, top))
                     THEN written[p] + 1 ELSE written[p]]
  /\ visited' = visited \cup {<<row, col>>}
  /\ StepTo(cells)
  /\ UNCHANGED <<config, disk, spritesheet, sheet_width, sheet_height, cols, rows,
                 left, top, frame, new_frame, messages, runs, first_input>>

\* line 32 and the loop headers, lines 21-22
Compose == ComposeThen(ForNext(row, col))

\* line 34
Save ==
  /\ pc = "save"
  /\ disk' = [disk EXCEPT ![output_path] = ImageFile(new_sheet)]
  /\ pc' = "print"
  /\ UNCHANGED <<config, locals, messages, history>>

\* a failing save after which the message is printed all the same
SaveFail_StillPrints ==
  /\ pc = "save"
  /\ messages' = Append(messages, completion_message)
  /\ pc' = "failed"
  /\ UNCHANGED <<config, disk, locals, history>>

\* line 34 raises: the destination cannot be opened (left as it was) or the
\* write breaks off (a file that was there is left truncated)
SaveFail ==
  /\ pc = "save"
  /\ \/ UNCHANGED disk
     \/ disk[output_path].kind # "absent" /\ disk' = [disk EXCEPT ![output_path] = Partial]
  /\ pc' = "failed"
  /\ UNCHANGED <<config, locals, messages, history>>

\* line 35
PrintMessage ==
  /\ pc = "print"
  /\ messages' = Append(messages, completion_message)
  /\ pc' = "done"
  /\ UNCHANGED <<config, disk, locals, history>>

Next ==
  \/ Open
  \/ OpenFail
  \/ Alloc
  \/ CropFrame
  \/ CropFail
  \/ Shift
  \/ Compose
  \/ Save
  \/ SaveFail
  \/ PrintMessage

Spec == Init /\ [][Next]_vars

\* ---- the same run with the cells taken in any order ------------------------
AllocAnyOrder == AllocThen(AllCells)

ComposeAnyOrder == ComposeThen(AllCells \ (visited \cup {<<row, col>>}))

NextAnyOrder ==
  \/ Open
  \/ OpenFail
  \/ AllocAnyOrder
  \/ CropFrame
  \/ CropFail
  \/ Shift
  \/ ComposeAnyOrder
  \/ Save
  \/ SaveFail
  \/ PrintMessage

\* The orders of a grid are explored for grids of at most MaxOrderCells cells.
InitAnyOrder ==
  /\ Init
  /\ disk[output_path] = Absent
  /\ (disk[input_path].img.w \div frame_width)
       * (disk[input_path].img.h \div frame_height) <= MaxOrderCells

SpecAnyOrder == InitAnyOrder /\ [][NextAnyOrder]_vars

\* lines 23-32 as one function of the sheet built so far
ProcessCell(sheet, r, c) ==
  LET l == CellLeft(c)
      t == CellTop(r)
      fr == Crop(spritesheet, CropBox(l, t))
      nf == Paste(ScratchFrame, fr, FrameOffset)
  IN Paste(sheet, nf, SheetOffset(l, t))

RECURSIVE RowMajorFrom(_, _)
\* lines 21-32: the loop from the i-th cell on, in the order of the for statements
RowMajorFrom(sheet, i) ==
  IF i >= rows * cols THEN sheet
  ELSE RowMajorFrom(ProcessCell(sheet, i \div cols, i % cols), i + 1)

RowMajorSheet == RowMajorFrom(NewImage(SheetSize[1], SheetSize[2]), 0)

\* ---- the script run again on its own output --------------------------------
\* The saved output replaces the source file and the script is started anew.
Rerun ==
  /\ pc = "done"
  /\ runs < MaxRuns
  /\ disk' = [disk EXCEPT ![input_path] = disk[output_path]]
  /\ runs' = runs + 1
  /\ pc' = "open"
  /\ spritesheet' = NoImage /\ sheet_width' = 0 /\ sheet_height' = 0
  /\ cols' = 0 /\ rows' = 0 /\ new_sheet' = NoImage
  /\ row' = 0 /\ col' = 0 /\ left' = 0 /\ top' = 0
  /\ frame' = NoImage /\ new_frame' = NoImage
  /\ messages' = <<>>
  /\ written' = <<>> /\ visited' = {}
  /\ UNCHANGED <<config, first_input>>

NextRerun == Next \/ Rerun

SpecRerun == Init /\ [][NextRerun]_vars

\* ---- vocabulary of the properties -------------------------------------------
Source == disk[input_path].img
Output == disk[output_path].img
Saved == pc \in {"print", "done"}
WholeCols == Source.w \div frame_width
WholeRows == Source.h \div frame_height
Cells == (0 .. WholeRows - 1) \X (0 .. WholeCols - 1)
InCell == (0 .. frame_width - 1) \X (0 .. frame_height - 1)
\* the sheet position of in-cell position <<x, y>> of cell <<r, c>>
At(cell, x, y) == <<cell[2] * frame_width + x, cell[1] * frame_height + y>>
Covered(p) == p[1] < WholeCols * frame_width /\ p[2] < WholeRows * frame_height
IsCopy(q, p) ==
  /\ p \in Coords(Source.w, Source.h)
  /\ Output.px[q] = Source.px[p]

\* C1 as stated: in every cell, every output pixel of an in-cell row
\* y >= y_offset equals the source pixel y_offset rows above it (wherever the
\* source has a pixel there).
C1_AsStated ==
  Saved =>
    \A cell \in Cells, i \in InCell :
      (i[2] >= y_offset /\ At(cell, i[1], i[2] - y_offset) \in Coords(Source.w, Source.h)) =>
        IsCopy(At(cell, i[1], i[2]), At(cell, i[1], i[2] - y_offset))

\* C1 amended: in every cell, every output pixel of an in-cell row y with
\* y >= y_offset and y - y_offset < frame_height (the source row lies in the
\* cell) equals the source pixel y_offset rows above it, alpha included.
C1_ShiftedCopy ==
  Saved =>
    \A cell \in Cells, i \in InCell :
      (i[2] >= y_offset /\ i[2] - y_offset < frame_height) =>
        IsCopy(At(cell, i[1], i[2]), At(cell, i[1], i[2] - y_offset))

C1_Witness ==
  /\ Saved
  /\ y_offset > 0
  /\ \E cell \in Cells, i \in InCell :
       /\ i[2] >= y_offset
       /\ Alpha(Source.px[At(cell, i[1], i[2] - y_offset)]) = Opaque
       /\ Output.px[At(cell, i[1], i[2])] = Source.px[At(cell, i[1], i[2] - y_offset)]

\* C2: the sheet that is built, and the image that is saved, have the source's
\* width and height, whatever the frame size.
C2_SameSize ==
  /\ pc \in {"crop", "shift", "compose", "save", "print", "done"} =>
       new_sheet.w = Source.w /\ new_sheet.h = Source.h
  /\ Saved =>
       /\ disk[output_path].kind = "image"
       /\ Output.w = Source.w /\ Output.h = Source.h

C2_Witness ==
  /\ Saved
  /\ Source.w % frame_width # 0
  /\ Source.h < frame_height
  /\ Output.w = Source.w /\ Output.h = Source.h

\* C3: in every cell the output rows with in-cell index y < y_offset have
\* alpha 0, whatever the source holds there.
C3_TopRowsTransparent ==
  Saved =>
    \A cell \in Cells, i \in InCell :
      i[2] < y_offset => Alpha(Output.px[At(cell, i[1], i[2])]) = 0

C3_Witness ==
  /\ Saved
  /\ \E cell \in Cells, i \in InCell :
       /\ i[2] < y_offset
       /\ Alpha(Source.px[At(cell, i[1], i[2])]) = Opaque
       /\ Alpha(Output.px[At(cell, i[1], i[2])]) = 0

\* C4: a pixel outside the whole frames is written by no loop iteration and
\* is blank in the sheet and in the saved output.
C4_RemainderUntouched ==
  /\ \A p \in DOMAIN written :
       ~Covered(p) => written[p] = 0 /\ new_sheet.px[p] = Blank
  /\ Saved =>
       \A p \in Coords(Output.w, Output.h) : ~Covered(p) => Output.px[p] = Blank

C4_Witness ==
  /\ Saved
  /\ Cells # {}
  /\ \E p \in Coords(Source.w, Source.h) :
       /\ ~Covered(p)
       /\ Alpha(Source.px[p]) = Opaque
       /\ Output.px[p] = Blank

\* The first source shifted n times by y_offset: one shift by n * y_offset,
\* clipped to the cell.
ShiftedBy(n, q) ==
  IF Covered(q) /\ (q[2] % frame_height) - n * y_offset \in 0 .. frame_height - 1
    THEN first_input.px[<<q[1], q[2] - n * y_offset>>]
    ELSE Blank

AllBlank(im) == \A p \in Coords(im.w, im.h) : im.px[p] = Blank

Composes ==
  /\ Output.w = first_input.w /\ Output.h = first_input.h
  /\ \A q \in Coords(Output.w, Output.h) : Output.px[q] = ShiftedBy(runs, q)

\* C5 as stated: a run on the output of the run before yields the first
\* source shifted by runs * y_offset, and never its own input again.
C5_AsStated ==
  (Saved /\ runs >= 2) => (Composes /\ disk[output_path] # disk[input_path])

\* C5 amended: a run on the output of the run before yields the first source
\* shifted by runs * y_offset with clipping; it yields its own input again
\* exactly if y_offset = 0 or that input is entirely blank.
C5_ShiftsAgain ==
  (Saved /\ runs >= 2) =>
    /\ Composes
    /\ disk[output_path] = disk[input_path] <=> (y_offset = 0 \/ AllBlank(Source))

C5_Witness ==
  /\ Saved /\ runs = 2
  /\ disk[output_path] # disk[input_path]
  /\ ~AllBlank(Output)

\* C6: the destination file changes only in the save step, which comes after
\* every cell has been processed, and no step follows a failure.
C6_Step ==
  /\ pc # "failed"
  /\ disk'[output_path] # disk[output_path] => (pc = "save" /\ visited = AllCells)
  /\ (pc' = "failed" /\ pc # "save") => disk' = disk

C6_SavedOnlyAtTheEnd == [][C6_Step]_vars

C6_Witness ==
  /\ pc = "failed"
  /\ visited # {}
  /\ new_sheet # NewImage(sheet_width, sheet_height)
  /\ disk[output_path] = StaleFile

\* C7: for any y_offset, in every cell the output pixel of in-cell row y is
\* the source pixel of in-cell row y - y_offset of the same cell if that row
\* is in 0 .. frame_height - 1, and has alpha 0 otherwise.
C7_Clipped ==
  Saved =>
    \A cell \in Cells, i \in InCell :
      IF i[2] - y_offset \in 0 .. frame_height - 1
        THEN IsCopy(At(cell, i[1], i[2]), At(cell, i[1], i[2] - y_offset))
        ELSE Alpha(Output.px[At(cell, i[1], i[2])]) = 0

C7_Witness ==
  /\ Saved
  /\ y_offset < 0
  /\ \E cell \in Cells, i \in InCell, j \in InCell :
       /\ i[2] + y_offset < 0
       /\ Alpha(Source.px[At(cell, i[1], i[2])]) = Opaque
       /\ j[2] + y_offset >= 0
       /\ Alpha(Source.px[At(cell, j[1], j[2])]) = Opaque
       /\ Output.px[At(cell, j[1], j[2] + y_offset)] = Source.px[At(cell, j[1], j[2])]

\* C8: at most one message is printed; one is printed exactly when the run
\* is done, it names the output path, and by then the sheet is on the disk.
C8_OneMessageAfterSave ==
  /\ Len(messages) <= 1
  /\ pc = "done" <=> Len(messages) = 1
  /\ messages # <<>> =>
       /\ messages[1] = completion_message
       /\ messages[1][2] = output_path
       /\ disk[output_path] = ImageFile(new_sheet)
  /\ pc = "failed" => messages = <<>>

C8_Witness ==
  /\ pc = "done"
  /\ messages = <<completion_message>>
  /\ disk[output_path] = ImageFile(new_sheet)

\* C9: in whatever order the cells are processed, no pixel is written by more
\* than one iteration, every pixel of a cell is written by exactly one, and
\* the sheet at the end is the sheet the row-major loop builds.
C9_OrderIrrelevant ==
  /\ \A p \in DOMAIN written : written[p] <= 1
  /\ pc \in {"save", "print", "done"} =>
       /\ visited = AllCells
       /\ \A p \in DOMAIN written : written[p] = (IF Covered(p) THEN 1 ELSE 0)
       /\ new_sheet = RowMajorSheet

C9_Witness ==
  /\ pc = "save"
  /\ Cardinality(AllCells) >= 3
  /\ <<row, col>> = <<0, 0>>
  /\ ~AllBlank(new_sheet)
  /\ new_sheet = RowMajorSheet

SameCell(cell) == {At(cell, i[1], i[2]) : i \in InCell}

\* C10: every output pixel of a cell has alpha 0 or is a copy of a source
\* pixel of the same cell, and for 0 < y_offset <= frame_height what the
\* source holds in the bottom y_offset rows of a cell is nowhere in the output.
C10_NoLeak ==
  Saved =>
    /\ \A cell \in Cells : \A q \in SameCell(cell) :
         \/ Alpha(Output.px[q]) = 0
         \/ \E p \in SameCell(cell) : Output.px[q] = Source.px[p]
    /\ (0 < y_offset /\ y_offset <= frame_height) =>
         \A cell \in Cells, i \in InCell :
           (i[2] >= frame_height - y_offset
              /\ Source.px[At(cell, i[1], i[2])] # Blank) =>
             \A q \in Coords(Output.w, Output.h) :
               Output.px[q] # Source.px[At(cell, i[1], i[2])]

C10_Witness ==
  /\ Saved
  /\ 0 < y_offset /\ y_offset < frame_height
  /\ WholeRows >= 2 /\ WholeCols >= 1
  /\ \E x \in 0 .. frame_width - 1 :
       /\ Alpha(Source.px[At(<<0, 0>>, x, frame_height - 1)]) = Opaque
       /\ Output.px[At(<<1, 0>>, x, y_offset - 1)] = Blank
       /\ Alpha(Source.px[At(<<0, 0>>, x, 0)]) = Opaque

====
